---- MODULE Spec2Model ----
(***************************************************************************)
(* Model of the learning engine of core/agent.py (class Agent): the        *)
(* episode/step loop of Agent.train, Agent.select_action, Agent.optimize   *)
(* and the two target-network synchronisation modes, together with the     *)
(* head selection of core/nn.py (class Network).                           *)
(*                                                                         *)
(* Tensors are scalars.  A network is one fixed-point parameter (Scale     *)
(* units = 1.0); its heads are fixed functions of that parameter, of the   *)
(* observed state and of the action.  The environment (MazEnv) and the     *)
(* replay memory (core/utils.py) are modelled at their interface.          *)
(***************************************************************************)
EXTENDS Integers, Sequences, FiniteSets, TLC

\* ---------------------------------------------------------------- bounds
\* args.max_episodes, args.horizon, args.batch_size, args.consecutive_episodes,
\* args.target_update and args.save_ratio of the run that is explored.
max_episodes == 3
horizon == 0
batch_size == 2
args_consecutive_episodes == 3
target_update == 2
save_ratio == 2
\* Cardinality of the action space (env.action_space.n).
NumActions == 2
\* Number of steps of a run for which every outcome of the environment, every
\* replay sample and both gradients are explored; the later steps take one
\* fixed draw of each.  The action selection is explored in full at every step.
FreeSteps == 2

\* ------------------------------------------------------- program constants
\* Python's None (an absent tensor / field).
None == -1
\* Fixed-point unit of a network parameter: Scale stands for 1.0.
Scale == 10 ^ 4
\* args.tau and args.gamma as fractions.
tau == [num |-> 1, den |-> 10]
gamma == [num |-> 9, den |-> 10]
\* args.transfer
transfer == FALSE

Actions == 0 .. (NumActions - 1)

\* Python's None as a value of args.use_aux.
NoneAux == "None"

\* Values of args.use_aux that are explored.  "no_aux" is the value Network
\* treats as "no auxiliary task"; "sf+reward" is named by Agent.__init__ only.
UseAuxValues ==
    {"no_aux", "ir", "reward", "sf", "virtual-reward-1", "virtual-reward-5", "sf+reward"}

\* The set of values the configuration surface recognises.
RecognizedAux == {NoneAux, "no_aux", "ir", "reward", "sf", "virtual-reward-1", "virtual-reward-5"}

VARIABLES
    use_aux,               \* args.use_aux
    soft_target_update,    \* args.soft_target_update
    pc,                    \* position of Agent.train
    ret,                   \* position optimize returns to
    i,                     \* episode index of the for loop
    t,                     \* step index of the inner loop
    steps_done,            \* self.steps_done
    policy_net,            \* parameter of self.policy_net
    target_net,            \* parameter of self.target_net
    memory,                \* self.memory, oldest first
    state, action, previous_state, previous_action,
    reward, info, done, next_state,      \* locals of Agent.train
    reward_in_episode,     \* local accumulator of the episode's return
    self_reward_in_episode,\* self.reward_in_episode, one return per episode
    consecutive_episodes,  \* local streak counter of Agent.train
    opt,                   \* locals of the optimize call that just ran
    outcome,               \* how train ended: "running", "success", "exhausted"
    budget, free,          \* exploration budget, and whether this step draws freely
    hist                   \* history: counters and provenance tags

vars == <<use_aux, soft_target_update, pc, ret, i, t, steps_done, policy_net,
          target_net, memory, state, action, previous_state, previous_action,
          reward, info, done, next_state, reward_in_episode,
          self_reward_in_episode, consecutive_episodes, opt, outcome,
          budget, free, hist>>

config == <<use_aux, soft_target_update>>
locals == <<state, action, previous_state, previous_action, reward, info,
            done, next_state>>

\* ------------------------------------------------------------ Agent.__init__
\* Whether the auxiliary task needs the next action (agent.py 49-52).
NeedNext(aux) ==
    aux = "sf" \/ aux = "sf+reward" \/ aux = "virtual-reward-1" \/ aux = "virtual-reward-5"

need_next == NeedNext(use_aux)

\* The test of agent.py 278, 319 and 218.
IsVirtual(aux) == aux = "virtual-reward-1" \/ aux = "virtual-reward-5"

\* ------------------------------------------------------------------ Network
\* Whether Network.__init__ builds an aux_network for this value (nn.py 142-151).
HasAuxNetwork(aux) ==
    /\ aux # "no_aux"
    /\ aux \in {"ir", "reward", "sf", "virtual-reward-1", "virtual-reward-5"}

\* Network.forward(x)[0][a]: the primary action-value head.
QHead(theta, s, a) == ((theta \div Scale) + 2 * s + 3 * a + a * s) % 5

\* Network.forward(x)[1][a]: the auxiliary head (None when no aux_network).
AuxHead(aux, theta, s, a) ==
    IF HasAuxNetwork(aux) THEN ((theta \div Scale) + s + 2 * a + 1) % 4 ELSE None

RECURSIVE MaxOver(_, _)
MaxOver(f, S) ==
    IF S = {} THEN None
    ELSE LET x == CHOOSE y \in S : \A z \in S : y <= z
             rest == MaxOver(f, S \ {x})
         IN IF rest = None \/ f[x] >= rest THEN f[x] ELSE rest

\* t.max(1)[0]: the largest head value.
MaxQ(theta, s) == MaxOver([a \in Actions |-> QHead(theta, s, a)], Actions)

\* t.max(1)[1]: the first index of the largest head value.
ArgMaxQ(theta, s) ==
    CHOOSE a \in Actions :
        /\ QHead(theta, s, a) = MaxQ(theta, s)
        /\ \A b \in Actions : QHead(theta, s, b) = MaxQ(theta, s) => a <= b

\* ------------------------------------------------------------- ReplayMemory
Transition(s, a, ns, r, na, vr) ==
    [state |-> s, action |-> a, next_state |-> ns, reward |-> r,
     next_action |-> na, virtual_reward |-> vr]

\* Capacity the agent constructs its memory with.
Capacity == 1000000

\* ReplayMemory.push: append, evicting the oldest entry when full.
Push(mem, tr) ==
    IF Len(mem) >= Capacity THEN Append(Tail(mem), tr) ELSE Append(mem, tr)

\* Same eviction applied to a history sequence kept alongside the memory.
PushTag(tags, mem, tag) ==
    IF Len(mem) >= Capacity THEN Append(Tail(tags), tag) ELSE Append(tags, tag)

\* ReplayMemory.sample(n): the sets of n distinct positions that may be drawn.
RECURSIVE LastPositions(_, _)
LastPositions(n, k) == IF k = 0 THEN {} ELSE {n} \cup LastPositions(n - 1, k - 1)

Samples(mem, n, drawFreely) ==
    IF drawFreely
    THEN {S \in SUBSET (1 .. Len(mem)) : Cardinality(S) = n}
    ELSE {LastPositions(Len(mem), n)}

RECURSIVE SortedSeq(_)
SortedSeq(S) ==
    IF S = {} THEN << >>
    ELSE LET x == CHOOSE y \in S : \A z \in S : y <= z
         IN <<x>> \o SortedSeq(S \ {x})

\* -------------------------------------------------------------- environment
\* env.reset(): the initial observation.
ResetState == 0

\* Observation returned by env.step(a) in observation s.
Observe(s, a) == s + 1 + a

\* What env.step may return besides the observation.
EnvOutcomes ==
    { [reward |-> 0, terminated |-> FALSE, truncated |-> FALSE, vr |-> 2],
      [reward |-> 1, terminated |-> FALSE, truncated |-> FALSE, vr |-> 3],
      [reward |-> 1, terminated |-> TRUE,  truncated |-> FALSE, vr |-> 2],
      [reward |-> 0, terminated |-> FALSE, truncated |-> TRUE,  vr |-> 3] }

\* The outcome of a step that does not draw freely.
FixedOutcome == [reward |-> 1, terminated |-> TRUE, truncated |-> FALSE, vr |-> 2]

StepOutcomes(drawFreely) == IF drawFreely THEN EnvOutcomes ELSE {FixedOutcome}

\* ----------------------------------------------------------- Agent.optimize
\* next_state_values[k] (agent.py 150-151, 168-170): 0 where next_state is None,
\* otherwise the largest value of the target network's primary head.
NextStateValue(theta, tr) ==
    IF tr.next_state = None THEN 0 ELSE MaxQ(theta, tr.next_state)

\* expected_state_action_values[k] (agent.py 173), in units of 1/gamma.den.
ExpectedValue(theta, tr) ==
    gamma.num * NextStateValue(theta, tr) + gamma.den * tr.reward

\* next_state_virtual_action_values[k] (agent.py 222): the target network's
\* auxiliary head at next_state, gathered at the stored next_action.
NextVirtualValue(aux, theta, tr) ==
    AuxHead(aux, theta, tr.next_state, tr.next_action)

\* bootstraped_value[k] (agent.py 223), in units of 1/gamma.den.
BootstrapedValue(aux, theta, tr) ==
    gamma.den * tr.virtual_reward + gamma.num * NextVirtualValue(aux, theta, tr)

\* The terms summed into the loss (agent.py 178-227).
LossTerms(aux, isTransfer) ==
    {"td"} \cup
    (IF isTransfer \/ aux = NoneAux THEN {}
     ELSE (IF aux = "ir" THEN {"ir"} ELSE {})
          \cup (IF aux = "reward" THEN {"reward"} ELSE {})
          \cup (IF aux = "sf" THEN {"sf", "next_rep"} ELSE {})
          \cup (IF IsVirtual(aux) THEN {"vvf"} ELSE {}))

\* Whether building the batch tensors raises: torch.cat of an empty list when
\* every sampled next_state is None (agent.py 152), torch.cat over a None
\* next_action or next_state when the variant needs them (160-161), and over
\* a None virtual_reward for the virtual-reward variants (218).
BatchRaises(aux, isTransfer, batch) ==
    \/ \A k \in 1 .. Len(batch) : batch[k].next_state = None
    \/ NeedNext(aux) /\ \E k \in 1 .. Len(batch) : batch[k].next_action = None
    \/ NeedNext(aux) /\ \E k \in 1 .. Len(batch) : batch[k].next_state = None
    \/ (~isTransfer) /\ IsVirtual(aux)
          /\ \E k \in 1 .. Len(batch) : batch[k].virtual_reward = None

\* Mutant of TooFewSamples: the test is off by one.
TooFewSamples_offByOne(mem) == Len(mem) < batch_size - 1

\* Whether optimize returns at its first test (agent.py 142-143).
TooFewSamples(mem) == Len(mem) < batch_size

\* The parameter after optimizer.step() with gradient g (agent.py 230-234).
GradStep(theta, g) == theta + g * Scale

\* The gradients a step may see.
Gradients(drawFreely) == IF drawFreely THEN {0, 1} ELSE {0}

NoOpt == [sampled |-> << >>, next_state_values |-> << >>,
          expected_state_action_values |-> << >>, bootstraped_value |-> << >>,
          loss_terms |-> {}]

\* ------------------------------------------------------ target synchronisers
\* Mutant of SoftUpdate: the two weights are exchanged.
SoftUpdate_swapped(thetaT, thetaP) ==
    (thetaT * tau.num + thetaP * (tau.den - tau.num)) \div tau.den

\* One soft update of a target parameter (agent.py 313), rounded toward zero
\* at the fixed-point resolution.
SoftUpdate(thetaT, thetaP) ==
    (thetaP * tau.num + thetaT * (tau.den - tau.num)) \div tau.den

\* load_state_dict(policy_net.state_dict()) (agent.py 344).
HardCopy(thetaT, thetaP) == thetaP

\* Mutant of HardSyncDue: the copy is not gated by the episode index.
HardSyncDue_everyEpisode(soft, ep) == ~soft

\* Whether the hard copy is due after episode index ep (agent.py 342-343).
HardSyncDue(soft, ep) == (~soft) /\ (ep % target_update = 0)

\* ------------------------------------------------------ Agent.select_action
\* Mutant of StepsDoneAfter: only the random branch counts.
StepsDoneAfter_randomOnly(sd, greedy) == IF greedy THEN sd ELSE sd + 1

\* self.steps_done after one call (agent.py 92); greedy tells the branch taken.
StepsDoneAfter(sd, greedy) == sd + 1

\* The actions one call may return (agent.py 93-102): the policy network's
\* best action on the greedy branch, env.action_space.sample() otherwise.
SelectableActions(theta, s, greedy) ==
    IF greedy THEN {ArgMaxQ(theta, s)} ELSE Actions

\* --------------------------------------------------------------- Agent.train
\* Mutant of EpisodeOver: the horizon test is off by one.
EpisodeOver_offByOne(d, step) == d \/ step >= horizon

\* The inner loop's exit test (agent.py 317).
EpisodeOver(d, step) == d \/ step > horizon

\* Whether the delayed store runs after the selection of step `step`
\* (agent.py 275-276).
DelayedStoreDue(nn, step) == nn /\ step > 0

\* Mutant of ImmediateStoreDue: the immediate store runs for every variant.
ImmediateStoreDue_always(nn) == TRUE

\* Whether the immediate store runs after the environment step (agent.py 298).
ImmediateStoreDue(nn) == ~nn

\* Mutant of FlushDue: the episode's last step is never flushed.
FlushDue_never(nn) == FALSE

\* Whether the final flush runs when the episode is over (agent.py 318).
FlushDue(nn) == nn

\* Mutant of StreakAfter: any return of at least 1 counts as a success.
StreakAfter_atLeastOne(streak, r) == IF r >= 1 THEN streak + 1 ELSE 0

\* The streak after an episode with return r (agent.py 328-331).
StreakAfter(streak, r) == IF r = 1 THEN streak + 1 ELSE 0

\* The outer loop's success test (agent.py 338).
Success(streak) == streak = args_consecutive_episodes

\* Mutant of DelayedTransition: action and next_action change places.
DelayedTransition_swapped(aux, ps, pa, s, r, a, inf) ==
    IF IsVirtual(aux) THEN Transition(ps, a, s, r, pa, inf)
    ELSE Transition(ps, a, s, r, pa, None)

\* The transition pushed by the delayed store and by the final flush
\* (agent.py 278-286 and 319-325).
DelayedTransition(aux, ps, pa, s, r, a, inf) ==
    IF IsVirtual(aux) THEN Transition(ps, pa, s, r, a, inf)
    ELSE Transition(ps, pa, s, r, a, None)

\* The transition pushed by the immediate store (agent.py 299).
ImmediateTransition(s, a, ns, r) == Transition(s, a, ns, r, None, None)

InitHist ==
    [selections |-> 0, envSteps |-> 0, softUpdates |-> 0, hardSyncs |-> 0,
     saves |-> 0, optCalls |-> 0, optRuns |-> 0, sampleCalls |-> 0,
     epSelections |-> 0, epSteps |-> 0, epPushes |-> 0, epOptCalls |-> 0,
     rewardStep |-> <<0, 0>>, rewardEnded |-> FALSE,
     memStep |-> << >>, memTerminal |-> << >>, memVia |-> << >>,
     lastPushSelections |-> 0, lastPushSteps |-> 0, horizonCuts |-> 0,
     epActions |-> << >>, epLog |-> << >>]

Init ==
    /\ use_aux \in UseAuxValues
    /\ soft_target_update \in BOOLEAN
    /\ pc = "reset"
    /\ ret = "reset"
    /\ i = 0
    /\ t = 0
    /\ steps_done = 0
    /\ policy_net = 0
    /\ target_net = HardCopy(0, 0)
    /\ memory = << >>
    /\ state = None /\ action = None
    /\ previous_state = None /\ previous_action = None
    /\ reward = None /\ info = None /\ done = FALSE /\ next_state = None
    /\ reward_in_episode = 0
    /\ self_reward_in_episode = << >>
    /\ consecutive_episodes = 0
    /\ opt = NoOpt
    /\ outcome = "running"
    /\ budget = FreeSteps
    /\ free = FALSE
    /\ hist = InitHist

\* agent.py 266-269: start of an episode.
EpisodeStart ==
    /\ pc = "reset"
    /\ pc' = "select"
    /\ t' = 0
    /\ reward_in_episode' = 0
    /\ state' = ResetState
    /\ info' = None
    /\ opt' = NoOpt
    /\ hist' = [hist EXCEPT !.epSelections = 0, !.epSteps = 0,
                            !.epPushes = 0, !.epOptCalls = 0,
                            !.epActions = << >>, !.epLog = << >>]
    /\ UNCHANGED <<config, ret, i, steps_done, policy_net, target_net, memory,
                   action, previous_state, previous_action, reward, done,
                   next_state, self_reward_in_episode, consecutive_episodes,
                   outcome, budget, free>>

\* agent.py 274-276 with select_action (agent.py 89-102).
SelectAction ==
    /\ pc = "select"
    /\ \E greedy \in BOOLEAN :
         /\ steps_done' = StepsDoneAfter(steps_done, greedy)
         /\ action' \in SelectableActions(policy_net, state, greedy)
    /\ free' = (budget > 0)
    /\ budget' = IF budget > 0 THEN budget - 1 ELSE 0
    /\ pc' = IF DelayedStoreDue(need_next, t) THEN "store_prev" ELSE "env"
    /\ opt' = NoOpt
    /\ hist' = [hist EXCEPT !.selections = @ + 1, !.epSelections = @ + 1,
                            !.epActions = Append(@, action')]
    /\ UNCHANGED <<config, ret, i, t, policy_net, target_net, memory, state,
                   previous_state, previous_action, reward, info, done,
                   next_state, reward_in_episode, self_reward_in_episode,
                   consecutive_episodes, outcome>>

\* The history kept with an environment step: the state it was taken in, the
\* action passed to env.step, and what env.step returned (agent.py 289-295).
StepRecord(s, a, ns, r, vr) ==
    [state |-> s, action |-> a, next_state |-> ns, reward |-> r, vr |-> vr]

\* The history kept with a push: which step's reward the transition carries,
\* whether that step ended its episode, and the position of the push.
Pushed(h, mem, via) ==
    [h EXCEPT !.memStep = PushTag(@, mem, h.rewardStep),
              !.memTerminal = PushTag(@, mem, h.rewardEnded),
              !.memVia = PushTag(@, mem, via),
              !.epPushes = @ + 1,
              !.lastPushSelections = h.epSelections,
              !.lastPushSteps = h.epSteps]

\* agent.py 276-286: the delayed store of the previous step, then optimize.
StoreDelayed ==
    /\ pc = "store_prev"
    /\ memory' = Push(memory, DelayedTransition(use_aux, previous_state,
                          previous_action, state, reward, action, info))
    /\ hist' = Pushed(hist, memory, "store_prev")
    /\ pc' = "optimize"
    /\ ret' = "env"
    /\ opt' = NoOpt
    /\ UNCHANGED <<config, i, t, steps_done, policy_net, target_net, locals,
                   reward_in_episode, self_reward_in_episode,
                   consecutive_episodes, outcome, budget, free>>

\* agent.py 289-295: one environment step.
EnvStep ==
    /\ pc = "env"
    /\ \E o \in StepOutcomes(free) :
         /\ reward' = o.reward
         /\ done' = (o.terminated \/ o.truncated)
         /\ info' = o.vr
         /\ hist' = [hist EXCEPT !.envSteps = @ + 1, !.epSteps = @ + 1,
                       !.rewardStep = <<i, t>>,
                       !.rewardEnded = EpisodeOver(o.terminated \/ o.truncated, t),
                       !.epLog = Append(@, StepRecord(state, action,
                                     Observe(state, action), o.reward, o.vr))]
    /\ next_state' = Observe(state, action)
    /\ pc' = IF ImmediateStoreDue(need_next) THEN "store" ELSE "advance"
    /\ opt' = NoOpt
    /\ UNCHANGED <<config, ret, i, t, steps_done, policy_net, target_net,
                   memory, state, action, previous_state, previous_action,
                   reward_in_episode, self_reward_in_episode,
                   consecutive_episodes, outcome, budget, free>>

\* agent.py 298-300: the immediate store, then optimize.
StoreImmediate ==
    /\ pc = "store"
    /\ memory' = Push(memory, ImmediateTransition(state, action, next_state, reward))
    /\ hist' = Pushed(hist, memory, "store")
    /\ pc' = "optimize"
    /\ ret' = "advance"
    /\ opt' = NoOpt
    /\ UNCHANGED <<config, i, t, steps_done, policy_net, target_net, locals,
                   reward_in_episode, self_reward_in_episode,
                   consecutive_episodes, outcome, budget, free>>

\* agent.py 142-143: optimize with too few samples returns at once.
OptimizeSkip ==
    /\ pc = "optimize"
    /\ TooFewSamples(memory)
    /\ pc' = ret
    /\ opt' = NoOpt
    /\ hist' = [hist EXCEPT !.optCalls = @ + 1, !.epOptCalls = @ + 1]
    /\ UNCHANGED <<config, ret, i, t, steps_done, policy_net, target_net,
                   memory, locals, reward_in_episode, self_reward_in_episode,
                   consecutive_episodes, outcome, budget, free>>

\* agent.py 144-234: sample a batch, build the targets, take one optimizer
\* step.  Sampling more transitions than the memory holds raises, and so does
\* a batch whose tensors cannot be built; either ends the run.
OptimizeRun ==
    /\ pc = "optimize"
    /\ ~TooFewSamples(memory)
    /\ IF Len(memory) < batch_size
       THEN /\ pc' = "crashed"
            /\ opt' = NoOpt
            /\ policy_net' = policy_net
            /\ hist' = [hist EXCEPT !.optCalls = @ + 1, !.epOptCalls = @ + 1,
                                    !.sampleCalls = @ + 1]
       ELSE \E S \in Samples(memory, batch_size, free) :
              LET sampled == SortedSeq(S)
                  batch == [k \in 1 .. Len(sampled) |-> memory[sampled[k]]]
              IN IF BatchRaises(use_aux, transfer, batch)
                 THEN /\ pc' = "crashed"
                      /\ opt' = NoOpt
                      /\ policy_net' = policy_net
                      /\ hist' = [hist EXCEPT !.optCalls = @ + 1,
                                              !.epOptCalls = @ + 1,
                                              !.sampleCalls = @ + 1]
                 ELSE /\ opt' = [sampled |-> sampled,
                                 next_state_values |->
                                     [k \in 1 .. Len(batch) |->
                                         NextStateValue(target_net, batch[k])],
                                 expected_state_action_values |->
                                     [k \in 1 .. Len(batch) |->
                                         ExpectedValue(target_net, batch[k])],
                                 bootstraped_value |->
                                     IF (~transfer) /\ IsVirtual(use_aux)
                                     THEN [k \in 1 .. Len(batch) |->
                                              BootstrapedValue(use_aux, target_net,
                                                               batch[k])]
                                     ELSE << >>,
                                 loss_terms |-> LossTerms(use_aux, transfer)]
                      /\ \E g \in Gradients(free) :
                            policy_net' = GradStep(policy_net, g)
                      /\ pc' = ret
                      /\ hist' = [hist EXCEPT !.optCalls = @ + 1,
                                              !.epOptCalls = @ + 1,
                                              !.optRuns = @ + 1,
                                              !.sampleCalls = @ + 1]
    /\ UNCHANGED <<config, ret, i, t, steps_done, target_net, memory, locals,
                   reward_in_episode, self_reward_in_episode,
                   consecutive_episodes, outcome, budget, free>>

\* agent.py 303-309: shift the step's locals and add the reward to the return.
Advance ==
    /\ pc = "advance"
    /\ previous_action' = action
    /\ previous_state' = state
    /\ state' = next_state
    /\ reward_in_episode' = reward_in_episode + reward
    /\ pc' = IF soft_target_update THEN "soft" ELSE "check"
    /\ opt' = NoOpt
    /\ UNCHANGED <<config, ret, i, t, steps_done, policy_net, target_net,
                   memory, action, reward, info, done, next_state,
                   self_reward_in_episode, consecutive_episodes, outcome,
                   budget, free, hist>>

\* agent.py 309-314: the soft update of the target network.
SoftTargetUpdate ==
    /\ pc = "soft"
    /\ target_net' = SoftUpdate(target_net, policy_net)
    /\ pc' = "check"
    /\ opt' = NoOpt
    /\ hist' = [hist EXCEPT !.softUpdates = @ + 1]
    /\ UNCHANGED <<config, ret, i, t, steps_done, policy_net, memory, locals,
                   reward_in_episode, self_reward_in_episode,
                   consecutive_episodes, outcome, budget, free>>

\* agent.py 317 false: the episode goes on with the next step.
ContinueEpisode ==
    /\ pc = "check"
    /\ ~EpisodeOver(done, t)
    /\ t' = t + 1
    /\ pc' = "select"
    /\ opt' = NoOpt
    /\ UNCHANGED <<config, ret, i, steps_done, policy_net, target_net, memory,
                   locals, reward_in_episode, self_reward_in_episode,
                   consecutive_episodes, outcome, budget, free, hist>>

\* agent.py 317-318 true: the episode is over.
LeaveEpisode ==
    /\ pc = "check"
    /\ EpisodeOver(done, t)
    /\ pc' = IF FlushDue(need_next) THEN "flush" ELSE "episode_end"
    /\ opt' = NoOpt
    /\ hist' = [hist EXCEPT !.horizonCuts = IF done THEN @ ELSE @ + 1]
    /\ UNCHANGED <<config, ret, i, t, steps_done, policy_net, target_net,
                   memory, locals, reward_in_episode, self_reward_in_episode,
                   consecutive_episodes, outcome, budget, free>>

\* agent.py 318-325: the final flush of the pending transition, then optimize.
Flush ==
    /\ pc = "flush"
    /\ memory' = Push(memory, DelayedTransition(use_aux, previous_state,
                          previous_action, state, reward, action, info))
    /\ hist' = Pushed(hist, memory, "flush")
    /\ pc' = "optimize"
    /\ ret' = "episode_end"
    /\ opt' = NoOpt
    /\ UNCHANGED <<config, i, t, steps_done, policy_net, target_net, locals,
                   reward_in_episode, self_reward_in_episode,
                   consecutive_episodes, outcome, budget, free>>

\* agent.py 327-335: record the return and update the streak.
EpisodeEnd ==
    /\ pc = "episode_end"
    /\ self_reward_in_episode' = Append(self_reward_in_episode, reward_in_episode)
    /\ consecutive_episodes' = StreakAfter(consecutive_episodes, reward_in_episode)
    /\ pc' = "check_streak"
    /\ opt' = NoOpt
    /\ UNCHANGED <<config, ret, i, t, steps_done, policy_net, target_net,
                   memory, locals, reward_in_episode, outcome, budget, free,
                   hist>>

\* agent.py 338-340: enough consecutive successes: save and leave the loop.
StopOnSuccess ==
    /\ pc = "check_streak"
    /\ Success(consecutive_episodes)
    /\ hist' = [hist EXCEPT !.saves = @ + 1]
    /\ outcome' = "success"
    /\ pc' = "done"
    /\ opt' = NoOpt
    /\ UNCHANGED <<config, ret, i, t, steps_done, policy_net, target_net,
                   memory, locals, reward_in_episode, self_reward_in_episode,
                   consecutive_episodes, budget, free>>

\* agent.py 342-348 and the loop header 264: hard copy when due, periodic
\* save, next episode or end of the loop.
EndOfEpisode ==
    /\ pc = "check_streak"
    /\ ~Success(consecutive_episodes)
    /\ target_net' = IF HardSyncDue(soft_target_update, i)
                     THEN HardCopy(target_net, policy_net) ELSE target_net
    /\ hist' = [hist EXCEPT
                  !.hardSyncs = IF HardSyncDue(soft_target_update, i) THEN @ + 1 ELSE @,
                  !.saves = IF i % save_ratio = 0 THEN @ + 1 ELSE @]
    /\ i' = i + 1
    /\ pc' = IF i + 1 < max_episodes THEN "reset" ELSE "done"
    /\ outcome' = IF i + 1 < max_episodes THEN outcome ELSE "exhausted"
    /\ opt' = NoOpt
    /\ UNCHANGED <<config, ret, t, steps_done, policy_net, memory, locals,
                   reward_in_episode, self_reward_in_episode,
                   consecutive_episodes, budget, free>>

Next ==
    \/ EpisodeStart
    \/ SelectAction
    \/ StoreDelayed
    \/ EnvStep
    \/ StoreImmediate
    \/ OptimizeSkip
    \/ OptimizeRun
    \/ Advance
    \/ SoftTargetUpdate
    \/ ContinueEpisode
    \/ LeaveEpisode
    \/ Flush
    \/ EpisodeEnd
    \/ StopOnSuccess
    \/ EndOfEpisode

Spec == Init /\ [][Next]_vars

TypeOK ==
    /\ pc \in {"reset", "select", "store_prev", "env", "store", "optimize",
               "advance", "soft", "check", "flush", "episode_end",
               "check_streak", "done", "crashed"}
    /\ Len(hist.memStep) = Len(memory)
    /\ Len(hist.memTerminal) = Len(memory)

\* ======================================================================
\* Claims
\* ======================================================================

\* The step an entry of the memory records: <<episode, step>> of the
\* environment step whose reward it carries.
RecordedStep(k) == hist.memStep[k]

\* C1: delayed-storage correctness.  Every push records either (need_next)
\* the previous step t-1, after the action of step t has been selected and
\* before step t's environment step, or the episode's last step in the final
\* flush; or (no need_next) the current step t, after its environment step and
\* before the next selection.
C1_DelayedStorage ==
    [][ Len(memory') > Len(memory) =>
          LET rec == hist'.memStep[Len(memory')]
          IN IF use_aux \in {"sf", "sf+reward", "virtual-reward-1", "virtual-reward-5"}
             THEN \/ /\ rec = <<i, t - 1>>
                     /\ t > 0
                     /\ hist.epSelections = t + 1
                     /\ hist.epSteps = t
                  \/ /\ rec = <<i, t>>
                     /\ pc = "flush"
                     /\ (done \/ t > horizon)
                     /\ hist.epSelections = t + 1
                     /\ hist.epSteps = t + 1
             ELSE /\ rec = <<i, t>>
                  /\ hist.epSelections = t + 1
                  /\ hist.epSteps = t + 1 ]_vars

\* C1 witness: a need_next run has stored step 0 by the delayed store and the
\* episode's last step by the final flush.
C1_Witness ==
    /\ need_next
    /\ Len(memory) >= 2
    /\ hist.memVia[1] = "store_prev" /\ RecordedStep(1) = <<0, 0>>
    /\ hist.memVia[2] = "flush" /\ RecordedStep(2) = <<0, 1>>

\* C2: a transition of the memory has next_state absent if and only if it
\* records the step that ended its episode.
C2_NextStateAbsentIffTerminal ==
    \A k \in 1 .. Len(memory) :
        (memory[k].next_state = None) <=> hist.memTerminal[k]

\* C3: for every transition the optimize call sampled, the primary bootstrap
\* value is 0 when the transition records a terminal step and otherwise the
\* largest value of the target network's primary head at next_state; the
\* virtual-value bootstrap is the target network's auxiliary head at
\* next_state at the stored next_action; each target is reward + gamma *
\* bootstrap value.
C3_BootstrapValues ==
    \A k \in 1 .. Len(opt.sampled) :
        LET p == opt.sampled[k]
            tr == memory[p]
            maxq == CHOOSE m \in {QHead(target_net, tr.next_state, a) : a \in Actions} :
                       \A a \in Actions : QHead(target_net, tr.next_state, a) <= m
            boot == IF hist.memTerminal[p] THEN 0 ELSE maxq
        IN /\ opt.next_state_values[k] = boot
           /\ opt.expected_state_action_values[k] * gamma.den
                 = gamma.den * (gamma.den * tr.reward) + gamma.num * (gamma.den * boot)
           /\ use_aux \in {"virtual-reward-1", "virtual-reward-5"} =>
                 opt.bootstraped_value[k] * gamma.den
                    = gamma.den * (gamma.den * tr.virtual_reward)
                      + gamma.num * (gamma.den *
                          AuxHead(use_aux, target_net, tr.next_state, tr.next_action))

\* C4: optimize invoked with fewer than batch_size transitions in the memory
\* returns without sampling and leaves policy_net, target_net and the memory
\* as they were; sample is never called on such a memory.
C4_NoOpBelowBatchSize ==
    [][ /\ (pc = "optimize" /\ Len(memory) < batch_size) =>
              /\ policy_net' = policy_net
              /\ target_net' = target_net
              /\ memory' = memory
              /\ hist'.sampleCalls = hist.sampleCalls
              /\ pc' = ret
        /\ (hist'.sampleCalls # hist.sampleCalls) => Len(memory) >= batch_size ]_vars

\* C4 witness: an optimize call has returned while the memory was non-empty
\* and below batch_size, and no call has sampled yet.
C4_Witness ==
    /\ pc # "optimize"
    /\ hist.optCalls > 0 /\ hist.sampleCalls = 0
    /\ Len(memory) > 0 /\ Len(memory) < batch_size

\* C5 as stated: without soft_target_update the target network changes only by
\* the verbatim copy of policy_net, and that copy is made once at the end of
\* every episode whose index is a multiple of target_update; with
\* soft_target_update no hard copy is ever made.
C5_HardSyncEveryGatedEpisode ==
    [][ /\ soft_target_update => hist'.hardSyncs = hist.hardSyncs
        /\ (~soft_target_update) =>
              /\ (target_net' # target_net \/ hist'.hardSyncs # hist.hardSyncs) =>
                    /\ pc = "check_streak"
                    /\ i % target_update = 0
                    /\ hist'.hardSyncs = hist.hardSyncs + 1
                    /\ target_net' = policy_net
                    /\ policy_net' = policy_net
              /\ (pc = "check_streak" /\ i % target_update = 0) =>
                    /\ hist'.hardSyncs = hist.hardSyncs + 1
                    /\ target_net' = policy_net' ]_vars

\* C5, amended: without soft_target_update the target network changes only by
\* the verbatim copy of policy_net made at the end of an episode whose index is
\* a multiple of target_update, and that copy is made at the end of every such
\* episode unless the streak has just reached the threshold: the episode that
\* ends the run by success is left before the copy and makes none.  With
\* soft_target_update no hard copy is ever made.  Neither optimize nor a step
\* of the inner loop makes one.
C5_HardSyncEpisodeGated ==
    [][ /\ soft_target_update => hist'.hardSyncs = hist.hardSyncs
        /\ (~soft_target_update) =>
              /\ (target_net' # target_net \/ hist'.hardSyncs # hist.hardSyncs) =>
                    /\ pc = "check_streak"
                    /\ consecutive_episodes # args_consecutive_episodes
                    /\ i' = i + 1
                    /\ i % target_update = 0
                    /\ hist'.hardSyncs = hist.hardSyncs + 1
                    /\ target_net' = policy_net
                    /\ policy_net' = policy_net
              /\ ( /\ pc = "check_streak"
                   /\ consecutive_episodes # args_consecutive_episodes
                   /\ i % target_update = 0 ) =>
                    /\ i' = i + 1
                    /\ hist'.hardSyncs = hist.hardSyncs + 1
                    /\ target_net' = policy_net'
              /\ ( /\ pc = "check_streak"
                   /\ consecutive_episodes = args_consecutive_episodes ) =>
                    /\ target_net' = target_net
                    /\ hist'.hardSyncs = hist.hardSyncs ]_vars

\* C5 witness: the run has ended by success in an episode whose index is a
\* multiple of target_update; the only hard copy is the one made after the
\* first episode, and the policy parameter has moved away from the target
\* since.
C5_Witness ==
    /\ ~soft_target_update
    /\ pc = "done" /\ outcome = "success"
    /\ i > 0 /\ i % target_update = 0
    /\ hist.hardSyncs = 1
    /\ target_net # policy_net

\* Environment steps whose soft update is still to come (0 or 1).
PendingSoftUpdate ==
    IF pc \in {"store", "advance", "soft"} \/ (pc = "optimize" /\ ret = "advance")
    THEN 1 ELSE 0

\* C6: with soft_target_update exactly one soft update follows every
\* environment step, whether or not optimize ran; it sets the target parameter
\* to tau * policy + (1 - tau) * target (at the fixed-point resolution) and
\* leaves policy_net alone; nothing else changes the target.  With tau = 0.1
\* and policy 1.0, target 0.0 becomes 0.1 and target 0.1 becomes 0.19.
C6_SoftUpdate ==
    /\ [](soft_target_update => hist.softUpdates + PendingSoftUpdate = hist.envSteps)
    /\ []((~soft_target_update) => hist.softUpdates = 0)
    /\ [][ /\ pc = "soft" =>
                LET exact == tau.num * policy_net + (tau.den - tau.num) * target_net
                IN /\ target_net' * tau.den <= exact
                   /\ exact < (target_net' + 1) * tau.den
                   /\ policy_net' = policy_net
                   /\ hist'.softUpdates = hist.softUpdates + 1
           /\ (soft_target_update /\ target_net' # target_net) => pc = "soft"
           /\ (pc = "soft" /\ tau.num * 10 = tau.den /\ policy_net = Scale
                           /\ target_net = 0) => target_net' * 10 = Scale
           /\ (pc = "soft" /\ tau.num * 10 = tau.den /\ policy_net = Scale
                           /\ target_net * 10 = Scale) => target_net' * 100 = 19 * Scale
       ]_vars

\* C6 witness: after three environment steps, the last two soft updates ran
\* with the policy parameter at 1.0 and took the target from 0.0 to 0.19.
C6_Witness ==
    /\ soft_target_update
    /\ pc = "check"
    /\ hist.softUpdates = 3 /\ hist.envSteps = 3
    /\ policy_net = Scale
    /\ target_net * 100 = 19 * Scale

\* Number of trailing entries of a sequence of returns that are exactly 1.
RECURSIVE TrailingOnes(_)
TrailingOnes(rs) ==
    IF rs = << >> \/ rs[Len(rs)] # 1 THEN 0
    ELSE 1 + TrailingOnes(SubSeq(rs, 1, Len(rs) - 1))

\* Periodic saves made by the time episode index ep is running.
PeriodicSaves(ep) == (ep + save_ratio - 1) \div save_ratio

\* C7: the streak is the number of most recent consecutive episodes whose
\* return is exactly 1; it never exceeds the threshold; once it equals the
\* threshold the run saves once more and stops; with threshold 3 the returns
\* 1, 1, 1 stop the run after the third episode.
C7_Streak ==
    /\ consecutive_episodes = TrailingOnes(self_reward_in_episode)
    /\ consecutive_episodes <= args_consecutive_episodes
    /\ (consecutive_episodes = args_consecutive_episodes /\ pc # "check_streak") =>
          /\ pc = "done"
          /\ outcome = "success"
          /\ hist.saves = PeriodicSaves(i) + 1
    /\ ( /\ args_consecutive_episodes = 3
         /\ Len(self_reward_in_episode) >= 3
         /\ \A k \in 1 .. 3 : self_reward_in_episode[k] = 1
         /\ pc # "check_streak" ) =>
          /\ Len(self_reward_in_episode) = 3
          /\ consecutive_episodes = 3
          /\ pc = "done"

\* C7 witness: after the returns 1, 2, 1 the streak, reset by the second
\* episode, has grown again to 1.
C7_Witness ==
    /\ self_reward_in_episode = <<1, 2, 1>>
    /\ consecutive_episodes = 1

\* Position of pc within one pass of the inner loop, counted from its end.
PcRank ==
    CASE pc = "select" -> 12
      [] pc = "store_prev" -> 11
      [] pc = "optimize" /\ ret = "env" -> 10
      [] pc = "env" -> 9
      [] pc = "store" -> 8
      [] pc = "optimize" /\ ret = "advance" -> 7
      [] pc = "advance" -> 6
      [] pc = "soft" -> 5
      [] pc = "check" -> 4
      [] pc = "flush" -> 3
      [] pc = "optimize" /\ ret = "episode_end" -> 2
      [] pc = "episode_end" -> 1
      [] OTHER -> 0

\* A bound on the steps train still has to take: episodes left, then passes of
\* the inner loop left in this episode, then positions left in this pass.
StepsLeft ==
    IF pc \in {"done", "crashed"} THEN 0
    ELSE (max_episodes - i) * ((horizon + 4) * 13)
         + (IF pc = "reset" THEN (horizon + 3) * 13
            ELSE (horizon + 2 - t) * 13 + PcRank)

\* Whether train can take a step: at its position, the test of one branch
\* holds and every draw the branch makes has a value to draw.
StepPossible ==
    \/ pc \in {"reset", "store_prev", "store", "advance", "soft", "flush",
               "episode_end"}
    \/ pc = "select" /\ Actions # {}
    \/ pc = "env" /\ StepOutcomes(free) # {}
    \/ pc = "optimize" /\ Len(memory) < batch_size
    \/ pc = "optimize" /\ Len(memory) >= batch_size
                       /\ Samples(memory, batch_size, free) # {}
                       /\ Gradients(free) # {}
    \/ pc = "check" /\ (done \/ t > horizon)
    \/ pc = "check" /\ ~(done \/ t > horizon)
    \/ pc = "check_streak" /\ consecutive_episodes = args_consecutive_episodes
    \/ pc = "check_streak" /\ consecutive_episodes # args_consecutive_episodes

\* C8: train terminates (every step lowers a non-negative bound on the steps
\* left, and a step is possible until train has ended), either by success
\* right after an episode at whose end the streak equals the threshold or
\* after max_episodes episodes; an episode goes on after step t exactly when
\* that step was neither done nor t > horizon.
C8_Termination ==
    /\ [](StepsLeft >= 0 /\ (pc = "done" \/ StepPossible))
    /\ [][StepsLeft' < StepsLeft]_vars
    /\ [](pc = "done" =>
            \/ /\ outcome = "success"
               /\ consecutive_episodes = args_consecutive_episodes
               /\ Len(self_reward_in_episode) = i + 1
            \/ /\ outcome = "exhausted"
               /\ consecutive_episodes # args_consecutive_episodes
               /\ i = max_episodes
               /\ Len(self_reward_in_episode) = max_episodes)
    /\ []( /\ t <= horizon + 1
           /\ hist.epSteps <= t + 1
           /\ (pc \in {"flush", "episode_end"}) => (done \/ t > horizon)
           /\ (pc \in {"select", "store_prev", "env"} /\ t > 0) =>
                 (~done /\ t - 1 <= horizon) )
    /\ [][ pc = "check" =>
             IF done \/ t > horizon
             THEN t' = t /\ pc' \in {"flush", "episode_end"}
             ELSE t' = t + 1 /\ pc' = "select" ]_vars

\* C8 witness: the run has ended by success in its last allowed episode, and
\* one of its episodes was cut by the horizon.
C8_Witness ==
    /\ pc = "done"
    /\ outcome = "success"
    /\ Len(self_reward_in_episode) = max_episodes
    /\ hist.horizonCuts >= 1

\* Selections whose environment step is still to come (0 or 1).
PendingEnvStep ==
    IF pc \in {"store_prev", "env"} \/ (pc = "optimize" /\ ret = "env")
    THEN 1 ELSE 0

\* C9: steps_done changes only in select_action, by exactly 1 on every call;
\* it equals the number of action selections of the run, which is the number
\* of environment steps plus one between a selection and its step.
C9_StepsDone ==
    /\ [](steps_done = hist.selections)
    /\ [](steps_done = hist.envSteps + PendingEnvStep)
    /\ [][ (steps_done' # steps_done \/ pc = "select") =>
              (pc = "select" /\ steps_done' = steps_done + 1) ]_vars

\* C9 witness: in a later episode, between a greedy or random selection and
\* its environment step.
C9_Witness ==
    /\ i >= 1
    /\ pc = "env"
    /\ steps_done >= 3
    /\ steps_done = hist.envSteps + 1

\* C10: with a use_aux outside the recognised set the run never gets to take
\* an optimizer step.
C10_InvalidConfigAborts ==
    (use_aux \notin RecognizedAux) => (hist.optRuns = 0 /\ pc # "done")

\* The environment steps of the running episode are taken with the actions
\* selected for them, each in the state the previous step returned.
StepsTakeSelected ==
    /\ Len(hist.epLog) <= Len(hist.epActions)
    /\ \A j \in 1..Len(hist.epLog) :
         /\ hist.epLog[j].action = hist.epActions[j]
         /\ hist.epLog[j].state =
              IF j = 1 THEN ResetState ELSE hist.epLog[j - 1].next_state

\* C11: for the variants needing the next action, the transition pushed for a
\* non-final step k of an episode is (state before step k, action taken at
\* step k, state after step k, reward of step k, action selected at step k+1,
\* and for the virtual-reward variants the virtual reward of step k's info).
C11_DelayedTransitionFields ==
    /\ []StepsTakeSelected
    /\ [][ ( /\ use_aux \in {"sf", "sf+reward", "virtual-reward-1",
                             "virtual-reward-5"}
             /\ Len(memory') > Len(memory)
             /\ ~hist'.memTerminal[Len(memory')] ) =>
           LET tr == memory'[Len(memory')]
               k  == hist'.memStep[Len(memory')][2]
           IN /\ hist'.memStep[Len(memory')][1] = i
              /\ Len(hist.epLog) >= k + 1
              /\ Len(hist.epActions) >= k + 2
              /\ tr.state = hist.epLog[k + 1].state
              /\ tr.action = hist.epLog[k + 1].action
              /\ tr.next_state = hist.epLog[k + 1].next_state
              /\ tr.reward = hist.epLog[k + 1].reward
              /\ tr.next_action = hist.epActions[k + 2]
              /\ tr.virtual_reward =
                   IF use_aux \in {"virtual-reward-1", "virtual-reward-5"}
                   THEN hist.epLog[k + 1].vr
                   ELSE None ]_vars

\* C11 witness: a virtual-reward run has stored step 0 by the delayed store
\* and has taken step 1, whose action, reward and virtual reward all differ
\* from those of step 0.
C11_Witness ==
    /\ use_aux = "virtual-reward-1"
    /\ i = 0 /\ t = 1 /\ pc = "advance"
    /\ Len(memory) = 1
    /\ hist.memVia[1] = "store_prev"
    /\ memory[1].action # memory[1].next_action
    /\ memory[1].next_action = action
    /\ memory[1].reward # reward
    /\ memory[1].virtual_reward # info
    /\ memory[1].virtual_reward # None

\* The tags of the pushes made in the running episode, oldest first.
EpisodePushes ==
    [k \in 1..hist.epPushes |->
        hist.memStep[Len(hist.memStep) - hist.epPushes + k]]

\* C12: in both storage modes every environment step of an episode yields
\* exactly one stored transition and one optimize call.  When an episode is
\* over, its pushes and its optimize calls both number its environment steps
\* and the pushes are those of steps 0, 1, ... in order, none missing and none
\* twice; every push is followed at once by one optimize call, and optimize
\* is called only right after a push.
C12_OnePushOneOptimizePerStep ==
    /\ [](pc \in {"episode_end", "check_streak"} =>
            /\ hist.epSteps = t + 1
            /\ hist.epPushes = hist.epSteps
            /\ hist.epOptCalls = hist.epSteps
            /\ hist.epPushes <= Len(hist.memStep)
            /\ EpisodePushes = [k \in 1..hist.epSteps |-> <<i, k - 1>>])
    /\ [](hist.epPushes = hist.epOptCalls + (IF pc = "optimize" THEN 1 ELSE 0))
    /\ [][ Len(memory') > Len(memory) =>
             /\ Len(memory') = Len(memory) + 1
             /\ hist'.epPushes = hist.epPushes + 1
             /\ hist'.epOptCalls = hist.epOptCalls
             /\ pc' = "optimize" ]_vars
    /\ [][ pc = "optimize" =>
             /\ hist'.epOptCalls = hist.epOptCalls + 1
             /\ memory' = memory
             /\ pc' # "optimize" ]_vars
    /\ [][ hist'.optCalls # hist.optCalls => pc = "optimize" ]_vars

\* C12 witness: an episode of two environment steps stored by the delayed
\* store and the final flush is over, with two pushes and two optimize calls.
C12_Witness ==
    /\ need_next
    /\ pc = "episode_end"
    /\ t = 1
    /\ hist.epSteps = 2 /\ hist.epPushes = 2 /\ hist.epOptCalls = 2
    /\ hist.memVia[Len(memory) - 1] = "store_prev"
    /\ hist.memVia[Len(memory)] = "flush"

====
